---- MODULE Spec2Model ----
(***************************************************************************)
(* MergeLocals (src/passes/MergeLocals.cpp): the pass instruments every    *)
(* copy  (set_local $x (get_local $y))  as                                  *)
(*       (set_local $x (tee_local $y (get_local $y))),                      *)
(* asks LocalGraph for the influences of the trivial tee, renames the       *)
(* influenced gets from $y to $x when every one of them has a single        *)
(* reaching set, and removes the trivial tee again.                         *)
(*                                                                         *)
(* A function body is a sequence of statements.  Statement k is either      *)
(*   (set_local index (const k))      value = "const"                       *)
(*   (set_local index (get_local get)) value = "get"                        *)
(*   (call $use (get_local get))      kind = "use", an observable read      *)
(* and a set may sit inside a one-armed  (if (cond k) ...)  (guard = TRUE). *)
(* Nodes are named by the statement that holds them: the outer SetLocal of  *)
(* statement k is k, the trivial SetLocal the pass inserts in it is -k, the *)
(* GetLocal of statement k is k, and 0 is the value a local has on entry    *)
(* (LocalGraph's nullptr set).                                              *)
(***************************************************************************)
EXTENDS Integers, Sequences, FiniteSets, TLC

\* bounds of the model: number of local slots, statements in a body
NumSlots == 3
MaxLen == 3

Slots == 1..NumSlots

SetConst(g, d) == [kind |-> "set", guard |-> g, index |-> d, value |-> "const", get |-> 0]
SetGet(g, d, s) == [kind |-> "set", guard |-> g, index |-> d, value |-> "get", get |-> s]
Use(s) == [kind |-> "use", guard |-> FALSE, index |-> 0, value |-> "get", get |-> s]

Stmts ==
  {SetConst(g, d) : g \in BOOLEAN, d \in Slots}
    \cup {SetGet(x[1], x[2], x[3]) : x \in BOOLEAN \X Slots \X Slots}
    \cup {Use(s) : s \in Slots}

\* The pass only compares slot indices for equality, and the locals' entry
\* values are pairwise distinct, so bodies that differ by a renaming of the
\* slots behave alike: only the bodies that name their slots in order of
\* first occurrence (index before get) are enumerated.
Max(a, b) == IF a >= b THEN a ELSE b

RECURSIVE MaxUsed(_)
MaxUsed(b) ==
  IF b = <<>> THEN 0
  ELSE LET n == Len(b) IN Max(MaxUsed(SubSeq(b, 1, n - 1)), Max(b[n].index, b[n].get))

InOrder(st, m) ==
  IF st.kind = "set"
    THEN st.index <= m + 1 /\ st.get <= Max(m, st.index) + 1
    ELSE st.get <= m + 1

InOrderBody(b) ==
  \A k \in 1..Len(b) : InOrder(b[k], MaxUsed(SubSeq(b, 1, k - 1)))

VARIABLES
  orig,          \* the function body as handed to the pass
  tree,          \* the function body, mutated in place
  trivial,       \* trivial[k]: index of the trivial SetLocal made for statement k (0: none)
  copies,        \* std::vector<SetLocal*> copies
  pc,            \* position in doWalkFunction / optimizeCopies
  pos,           \* next statement the walker visits
  getSetses,     \* localGraph.getSetses
  setInfluences, \* localGraph.setInfluences
  i,             \* position of the for loop over copies
  canDoThemAll   \* the local of the loop body

vars == <<orig, tree, trivial, copies, pc, pos, getSetses, setInfluences, i, canDoThemAll>>

HasGet(st) == st.value \in {"get", "tee"}

----
\* visitSetLocal

\* faulty variant: the index comparison of line 87 left out
IsCopyAnyGet(curr) ==
  /\ curr.kind = "set"
  /\ curr.value = "get"

IsCopy(curr) ==
  /\ curr.kind = "set"
  /\ curr.value = "get"
  /\ curr.get # curr.index

makeTrivialIndex(curr) == curr.get

visitSetLocal ==
  /\ pc = "walk"
  /\ LET curr == tree[pos] IN
       IF IsCopy(curr)
         THEN /\ trivial' = [trivial EXCEPT ![pos] = makeTrivialIndex(curr)]
              /\ tree' = [tree EXCEPT ![pos].value = "tee"]
              /\ copies' = Append(copies, pos)
         ELSE UNCHANGED <<trivial, tree, copies>>
  /\ pos' = pos + 1
  /\ pc' = IF pos = Len(tree) THEN "graph" ELSE "walk"
  /\ UNCHANGED <<orig, getSetses, setInfluences, i, canDoThemAll>>

----
\* LocalGraph over the instrumented body

EntrySets == [s \in Slots |-> {0}]

FlowAfter(t, tr, k, st) ==
  LET s1 == IF t[k].value = "tee" THEN [st EXCEPT ![tr[k]] = {-k}] ELSE st
      s2 == IF t[k].kind = "set" THEN [s1 EXCEPT ![t[k].index] = {k}] ELSE s1
  IN IF t[k].guard THEN [s \in Slots |-> st[s] \cup s2[s]] ELSE s2

RECURSIVE FlowBefore(_, _, _)
FlowBefore(t, tr, k) ==
  IF k = 1 THEN EntrySets ELSE FlowAfter(t, tr, k - 1, FlowBefore(t, tr, k - 1))

Gets(t) == {k \in 1..Len(t) : HasGet(t[k])}

Sets(t) == {0} \cup {k \in 1..Len(t) : t[k].kind = "set"}
             \cup {-k : k \in {j \in 1..Len(t) : t[j].value = "tee"}}

LocalGraphGetSetses(t, tr) ==
  [k \in Gets(t) |-> FlowBefore(t, tr, k)[t[k].get]]

computeInfluences(t, gs) ==
  [w \in Sets(t) |-> {k \in DOMAIN gs : w \in gs[k]}]

LocalGraph ==
  /\ pc = "graph"
  /\ getSetses' = LocalGraphGetSetses(tree, trivial)
  /\ setInfluences' = computeInfluences(tree, getSetses')
  /\ i' = 1
  /\ pc' = IF copies = <<>> THEN "done" ELSE "decide"
  /\ UNCHANGED <<orig, tree, trivial, copies, pos, canDoThemAll>>

----
\* optimizeCopies: the body of the loop over copies

AssertsHold(t, tr, gs, infl, copy) ==
  \A g \in infl[-copy] :
    /\ t[g].get = tr[copy]
    /\ Cardinality(gs[g]) = 1 => gs[g] = {-copy}

\* faulty variants: the size check dropped; one single-set get taken as enough
CanDoThemAllAlways(gs, influenced) == TRUE

CanDoThemAllSome(gs, influenced) ==
  influenced = {} \/ \E g \in influenced : Cardinality(gs[g]) = 1

CanDoThemAll(gs, influenced) ==
  \A g \in influenced : Cardinality(gs[g]) = 1

\* faulty variant: only the first influenced get is renamed
RenameInfluencedOne(t, influenced, index) ==
  [k \in DOMAIN t |->
     IF k \in influenced /\ \A g \in influenced : k <= g
       THEN [t[k] EXCEPT !.get = index] ELSE t[k]]

RenameInfluenced(t, influenced, index) ==
  [k \in DOMAIN t |-> IF k \in influenced THEN [t[k] EXCEPT !.get = index] ELSE t[k]]

\* faulty variants: the tee is kept; kept unless merged; replaced by a new
\* get of the tee's slot instead of the tee's own value
RemoveTrivialNever(t, tr, copy) == t

RemoveTrivialOnlyMerged(t, tr, copy) ==
  IF canDoThemAll THEN [t EXCEPT ![copy].value = "get"] ELSE t

RemoveTrivialRebuild(t, tr, copy) ==
  [t EXCEPT ![copy].value = "get", ![copy].get = tr[copy]]

RemoveTrivial(t, tr, copy) == [t EXCEPT ![copy].value = "get"]

OptimizeCopy(t, tr, gs, infl, copy) ==
  LET influenced == infl[-copy]
      renamed == IF CanDoThemAll(gs, influenced)
                   THEN RenameInfluenced(t, influenced, t[copy].index)
                   ELSE t
  IN RemoveTrivial(renamed, tr, copy)

Decide ==
  /\ pc = "decide"
  /\ LET copy == copies[i]
         influenced == setInfluences[-copy]
     IN IF ~AssertsHold(tree, trivial, getSetses, setInfluences, copy)
          THEN /\ pc' = "abort"
               /\ UNCHANGED <<tree, canDoThemAll>>
          ELSE /\ canDoThemAll' = CanDoThemAll(getSetses, influenced)
               /\ tree' = IF canDoThemAll'
                            THEN RenameInfluenced(tree, influenced, tree[copy].index)
                            ELSE tree
               /\ pc' = "clean"
  /\ UNCHANGED <<orig, trivial, copies, pos, getSetses, setInfluences, i>>

Clean ==
  /\ pc = "clean"
  /\ tree' = RemoveTrivial(tree, trivial, copies[i])
  /\ i' = i + 1
  /\ pc' = IF i = Len(copies) THEN "done" ELSE "decide"
  /\ UNCHANGED <<orig, trivial, copies, pos, getSetses, setInfluences, canDoThemAll>>

----
Init ==
  /\ \E n \in 1..MaxLen : orig \in [1..n -> Stmts]
  /\ InOrderBody(orig)
  /\ tree = orig
  /\ trivial = [k \in 1..Len(orig) |-> 0]
  /\ copies = <<>>
  /\ pc = "walk"
  /\ pos = 1
  /\ getSetses = <<>>
  /\ setInfluences = <<>>
  /\ i = 0
  /\ canDoThemAll = TRUE

Next == visitSetLocal \/ LocalGraph \/ Decide \/ Clean

Spec == Init /\ [][Next]_vars

\* doWalkFunction runs to completion: no suspension points
LiveSpec == Spec /\ WF_vars(Next)

TypeOK ==
  /\ pc \in {"walk", "graph", "decide", "clean", "done", "abort"}
  /\ Len(tree) = Len(orig)
  /\ \A k \in 1..Len(tree) : tree[k].get \in 0..NumSlots
----
\* Execution of a body: conds[k] is the value of (cond k); a local holds -s
\* on entry to the function and (const k) evaluates to k, so that values
\* of different origin never coincide.  The observable behaviour is the
\* sequence of values passed to $use.

EntryEnv == [s \in Slots |-> -s]

Conds(t) == [1..Len(t) -> BOOLEAN]

RECURSIVE RunFrom(_, _, _, _, _, _)
RunFrom(t, tr, conds, k, env, out) ==
  IF k > Len(t) THEN out
  ELSE IF t[k].guard /\ ~conds[k] THEN RunFrom(t, tr, conds, k + 1, env, out)
  ELSE
    LET v == IF t[k].value = "const" THEN k ELSE env[t[k].get]
        e1 == IF t[k].value = "tee" THEN [env EXCEPT ![tr[k]] = v] ELSE env
        e2 == IF t[k].kind = "set" THEN [e1 EXCEPT ![t[k].index] = v] ELSE e1
        o2 == IF t[k].kind = "use" THEN Append(out, v) ELSE out
    IN RunFrom(t, tr, conds, k + 1, e2, o2)

Run(t, tr, conds) == RunFrom(t, tr, conds, 1, EntryEnv, <<>>)

Renamed(k) == tree[k].get # orig[k].get

Influenced(c) == setInfluences[-c]

CopySet == {copies[n] : n \in 1..Len(copies)}

GraphDone == pc \in {"decide", "clean", "done"}

Eligible(c) == \A g \in Influenced(c) : Cardinality(getSetses[g]) = 1

----
\* C1: semantics preservation - once the pass has returned, the body passes
\* the same values to $use, for every choice of the conditions, as the body
\* the pass was given.
C1_SemanticsPreserved ==
  pc = "done" => \A conds \in Conds(orig) : Run(tree, trivial, conds) = Run(orig, trivial, conds)

\* the instrumentation alone keeps the behaviour (checked before any rename)
InstrumentationPreserves ==
  pc \in {"walk", "graph"} =>
    \A conds \in Conds(orig) : Run(tree, trivial, conds) = Run(orig, trivial, conds)
----
\* C2: soundness of merge - a copy with an influenced get that has more or
\* fewer than one reaching set never has any of its influenced gets renamed,
\* neither by itself nor by any other copy of the list.
C2_SoundnessOfMerge ==
  GraphDone =>
    \A c \in CopySet : ~Eligible(c) => \A g \in Influenced(c) : ~Renamed(g)

C2_Witness ==
  /\ pc = "done"
  /\ \E c \in CopySet : ~Eligible(c) /\ Influenced(c) # {}
  /\ Len(copies) >= 2

\* C3: completeness of merge - once a copy whose influenced gets all have
\* exactly one reaching set has been processed, every one of those gets reads
\* the copy's destination slot, up to the end of the pass, and the copy is a
\* SetLocal whose value is the bare GetLocal again (which slot that GetLocal
\* reads is the subject of C5).
Processed(n) == pc = "done" \/ (GraphDone /\ n < i)

C3_CompletenessOfMerge ==
  \A n \in 1..Len(copies) :
    (Processed(n) /\ Eligible(copies[n])) =>
      /\ \A g \in Influenced(copies[n]) : tree[g].get = tree[copies[n]].index
      /\ tree[copies[n]].kind = "set"
      /\ tree[copies[n]].value = "get"

C3_Witness ==
  /\ pc = "done"
  /\ \E n \in 1..Len(copies) :
       /\ n < Len(copies)
       /\ Eligible(copies[n])
       /\ Influenced(copies[n]) # {}

\* C4: no instrumentation leakage - when the pass has returned, no SetLocal
\* of the body has a trivial tee as its value.
C4_NoInstrumentationLeft ==
  pc = "done" => \A k \in 1..Len(tree) : tree[k].value # "tee"

C4_Witness ==
  /\ pc = "done"
  /\ \E c1, c2 \in CopySet :
       /\ Eligible(c1) /\ Influenced(c1) # {}
       /\ ~Eligible(c2)

\* C5 (as claimed): after the pass every copy has its destination slot and a
\* bare GetLocal of the source slot it had before the pass.
C5_CopyRestoredAsWritten ==
  pc = "done" =>
    \A c \in CopySet :
      /\ tree[c].index = orig[c].index
      /\ tree[c].value = "get"
      /\ tree[c].get = orig[c].get

\* C5 (amended): after the pass every copy has its destination slot and, as
\* its value, the bare GetLocal node it had before the pass; that node reads
\* the source slot it read before unless it is itself an influenced get of a
\* merged copy, and then it reads that copy's destination slot.
MergedOver(g) == {m \in CopySet : Eligible(m) /\ g \in Influenced(m)}

C5_CopyRestoredNode ==
  pc = "done" =>
    \A c \in CopySet :
      /\ tree[c].index = orig[c].index
      /\ tree[c].value = "get"
      /\ IF MergedOver(c) = {}
           THEN tree[c].get = orig[c].get
           ELSE \A m \in MergedOver(c) : tree[c].get = orig[m].index

C5_Witness ==
  /\ pc = "done"
  /\ \E c \in CopySet : MergedOver(c) # {} /\ tree[c].get # orig[c].get
  /\ \E c \in CopySet : ~Eligible(c)

\* C6: nothing to merge - if no copy was recorded, or no recorded copy
\* influences any get, the body after the pass equals the body it was given;
\* and a SetLocal whose value is a GetLocal of its own slot is never recorded
\* as a copy and never instrumented.
SelfAssign(st) == st.kind = "set" /\ st.value = "get" /\ st.get = st.index

C6_UnchangedWhenNothingToMerge ==
  /\ (pc = "done" /\ \A c \in CopySet : Influenced(c) = {}) => tree = orig
  /\ \A k \in 1..Len(orig) :
       SelfAssign(orig[k]) =>
         /\ k \notin CopySet
         /\ trivial[k] = 0
         /\ tree[k].value = "get"
         /\ tree[k].index = orig[k].index

C6_Witness ==
  /\ pc = "done"
  /\ copies # <<>>
  /\ \A c \in CopySet : Influenced(c) = {}
  /\ \E k \in 1..Len(orig) : SelfAssign(orig[k])
  /\ \E k \in 1..Len(orig) : orig[k].kind = "use"

\* C7: the two assertions of optimizeCopies never fail - when a copy is about
\* to be processed, every get its trivial tee influences still reads the slot
\* the tee writes, and every such get with one reaching set has that tee as
\* the set, although earlier copies have renamed gets.
C7_AssertionsHold ==
  /\ pc # "abort"
  /\ pc = "decide" =>
       \A g \in Influenced(copies[i]) :
         /\ tree[g].get = trivial[copies[i]]
         /\ Cardinality(getSetses[g]) = 1 => getSetses[g] = {-copies[i]}

C7_Witness ==
  /\ pc = "decide"
  /\ i > 1
  /\ \E k \in 1..Len(tree) : Renamed(k)
  /\ Influenced(copies[i]) # {}

\* C8: the order of the copy list does not matter - when the graph has been
\* computed and the loop is about to start, running the loop body over any
\* permutation of the recorded copies, against that graph, gives the same
\* body, the one the pass ends with.  (Which copies are merged
\* is read off the graph alone: Eligible.)
RECURSIVE OptimizeIn(_, _)
OptimizeIn(order, t) ==
  IF order = <<>> THEN t
  ELSE OptimizeIn(Tail(order), OptimizeCopy(t, trivial, getSetses, setInfluences, Head(order)))

Orders ==
  {p \in [1..Len(copies) -> CopySet] : \A a, b \in 1..Len(copies) : p[a] = p[b] => a = b}

Instrumented ==
  [k \in 1..Len(orig) |-> IF k \in CopySet THEN [orig[k] EXCEPT !.value = "tee"] ELSE orig[k]]

C8_OrderInsignificant ==
  /\ (pc = "decide" /\ i = 1) =>
       \A p \in Orders : OptimizeIn(p, tree) = OptimizeIn(copies, tree)
  /\ pc = "done" => tree = OptimizeIn(copies, Instrumented)

C8_Witness ==
  /\ pc = "done"
  /\ \E c1, c2 \in CopySet :
       /\ c1 # c2
       /\ tree[c1].index # tree[c2].index
       /\ c2 \in Influenced(c1)
       /\ Renamed(c2)
       /\ Influenced(c2) # {}

\* C9: every copy record goes Detected -> Merged or Skipped -> Cleaned and
\* nothing else; it is Detected as long as the graph is not computed, it is
\* Cleaned when the pass has returned, and the pass returns.
Status(n) ==
  IF tree[copies[n]].value # "tee" THEN "Cleaned"
  ELSE IF pc = "clean" /\ i = n THEN (IF canDoThemAll THEN "Merged" ELSE "Skipped")
  ELSE "Detected"

StatusStep ==
  /\ \A n \in 1..Len(copies) :
       \/ Status(n)' = Status(n)
       \/ Status(n) = "Detected" /\ Status(n)' \in {"Merged", "Skipped"}
       \/ Status(n) \in {"Merged", "Skipped"} /\ Status(n)' = "Cleaned"
  /\ \A n \in (Len(copies) + 1)..Len(copies') : Status(n)' = "Detected"

C9_CopyStateMachine ==
  /\ [][StatusStep]_vars
  /\ [](pc \in {"walk", "graph"} => \A n \in 1..Len(copies) : Status(n) = "Detected")
  /\ [](pc = "done" => \A n \in 1..Len(copies) : Status(n) = "Cleaned")
  /\ <>(pc = "done")

C9_Witness ==
  /\ pc = "clean"
  /\ Status(i) = "Skipped"
  /\ \E n \in 1..Len(copies) : Status(n) = "Cleaned" /\ Eligible(copies[n])

\* C10: a get changes slot at most once - only away from the slot it had
\* before the pass, and only while the copy whose trivial tee is its one
\* reaching set is processed; a get influenced by two copies is never
\* renamed; the slot of a SetLocal, trivial or not, never changes.
RenameStep ==
  /\ \A k \in 1..Len(tree) :
       /\ tree'[k].index = tree[k].index
       /\ tree'[k].get # tree[k].get =>
            /\ tree[k].get = orig[k].get
            /\ pc = "decide"
            /\ getSetses[k] = {-copies[i]}
  /\ \A k \in 1..Len(tree) : trivial[k] # 0 => trivial'[k] = trivial[k]

InfluencedByTwo(k) ==
  \E c1, c2 \in CopySet : c1 # c2 /\ k \in Influenced(c1) /\ k \in Influenced(c2)

C10_RenamedOnceBySoleSet ==
  /\ [][RenameStep]_vars
  /\ [](GraphDone => \A k \in 1..Len(tree) : InfluencedByTwo(k) => ~Renamed(k))

C10_Witness ==
  /\ pc = "done"
  /\ Len(copies) >= 2
  /\ \E k \in 1..Len(tree) : Renamed(k) /\ tree[k].kind = "use"
====
